---- MODULE Spec2Model ----
(***************************************************************************)
(* Model of the loyalty-points backend (scoring-service): the ledger store *)
(* (orders, user balances, withdrawals), the accrual client FetchAccrual,  *)
(* the de-duplicating QueueManager with its worker pool and recovery       *)
(* sweep, and the order / withdrawal use-cases.                            *)
(***************************************************************************)
EXTENDS Integers, Sequences, FiniteSets, TLC

\* ------------------------------------------------------------------ bounds
NumUsers == 2          \* user ids 1..NumUsers (id 0 is "no row")
NumHandlers == 1       \* concurrent PostOrder requests
NumWithdrawers == 2    \* concurrent WithdrawBalance requests
MaxAccrual == 1        \* accrual values the accrual service may return: 0..MaxAccrual
MaxSum == 2            \* withdrawal sums requested: -1..MaxSum
MaxBalance == 2        \* cap on current_balance (credits beyond it are not explored)
MaxWithdrawals == 2    \* cap on the number of withdrawal rows
JobChanCap == 1        \* capacity of jobChan (100 in the program, scaled down)
WorkerPool == 2        \* number of worker goroutines (5 in the program, scaled down)
MaxRateLimited == 2    \* cap on the 429 answers to one FetchAccrual
MaxManagers == 2       \* cap on the calls of the earlier GetQueueManager

\* ------------------------------------------------------- program constants
maxAttempts == 5
StatusOK == 0
StatusAlreadyExist == 1
StatusConflict == 2
StatusInvalid == 3
StatusError == 4

OrderNew == "NEW"
OrderProcessing == "PROCESSING"
OrderInvalid == "INVALID"
OrderProcessed == "PROCESSED"

\* ------------------------------------------------------------------ inputs
Users == 1..NumUsers
Handlers == 1..NumHandlers
Withdrawers == 1..NumWithdrawers
Workers == 1..WorkerPool

\* Order numbers are digit strings, modelled as sequences of digits.
ValidNums == {<<1, 8>>, <<2, 6>>}
InvalidNums == {<<1, 2>>}
OrderNums == ValidNums \cup InvalidNums
\* The larger set used to fill the job channel and every worker.
QueueNums == {<<1, 8>>, <<2, 6>>, <<3, 4>>, <<4, 2>>}
AllNums == OrderNums \cup QueueNums

\* Status strings the accrual service may put in a decision.
AccrualStatuses == {"REGISTERED", OrderProcessing, OrderInvalid, OrderProcessed}

\* ---------------------------------------------------------- pure functions
\* Luhn checksum over a digit string: from the right, every second digit is
\* doubled (minus 9 when above 9); the sum must be divisible by 10.
RECURSIVE LuhnSum(_, _)
LuhnSum(s, i) ==
  IF i > Len(s) THEN 0
  ELSE LET d == s[Len(s) + 1 - i]
           v == IF i % 2 = 0 THEN (IF 2 * d > 9 THEN 2 * d - 9 ELSE 2 * d) ELSE d
       IN v + LuhnSum(s, i + 1)

IsValidLuhn(s) ==
  /\ Len(s) > 0
  /\ \A i \in 1..Len(s) : s[i] \in 0..9
  /\ LuhnSum(s, 1) % 10 = 0

\* sql.NullFloat64{Float64: x, Valid: v}; an invalid one is stored as NULL.
NullFloat64(x, v) == IF v THEN [valid |-> TRUE, val |-> x] ELSE [valid |-> FALSE, val |-> 0]
SqlNull == NullFloat64(0, FALSE)

\* The orders table as a function of the number; user_id 0 marks "no row".
NoRow == [user_id |-> 0, status |-> "", accrual |-> SqlNull]
HasRow(o, n) == n \in DOMAIN o /\ o[n].user_id # 0

\* A lookup that never finds the row.
IsOrderExistsNever(o, n) == 0

\* SELECT user_id FROM orders WHERE number = $1; sql.ErrNoRows gives 0.
IsOrderExists(o, n) == IF HasRow(o, n) THEN o[n].user_id ELSE 0

\* An upsert that also rewrites the owner.
SaveOrderTakeOver(o, user, n, status, accrual) ==
  [o EXCEPT ![n] = [user_id |-> user, status |-> status,
                    accrual |-> NullFloat64(accrual, TRUE)]]

\* INSERT ... ON CONFLICT (number) DO UPDATE SET status = $3, accrual = $4.
SaveOrder(o, user, n, status, accrual) ==
  IF HasRow(o, n)
  THEN [o EXCEPT ![n].status = status, ![n].accrual = NullFloat64(accrual, TRUE)]
  ELSE [o EXCEPT ![n] = [user_id |-> user, status |-> status,
                         accrual |-> NullFloat64(accrual, TRUE)]]

\* The CTE of UpdateOrder: UPDATE orders SET status = $2, accrual = $3
\* WHERE number = $1 RETURNING user_id, accrual.
UpdateOrderRows(o, resp) ==
  IF HasRow(o, resp.order)
  THEN [o EXCEPT ![resp.order].status = resp.status,
                 ![resp.order].accrual = NullFloat64(resp.accrual, resp.accrual > 0)]
  ELSE o

\* The amount the outer UPDATE users adds: uo.accrual when a row was
\* returned and uo.accrual > 0 (NULL > 0 is not true).
UpdateOrderCredit(o, resp) ==
  IF HasRow(o, resp.order) /\ UpdateOrderRows(o, resp)[resp.order].accrual.valid
     /\ UpdateOrderRows(o, resp)[resp.order].accrual.val > 0
  THEN UpdateOrderRows(o, resp)[resp.order].accrual.val
  ELSE 0

\* A query without the WHERE clause.
GetAllOrders(o) == {n \in DOMAIN o : HasRow(o, n)}

\* SELECT number FROM orders WHERE status IN ('NEW', 'PROCESSING').
GetPendingOrders(o) ==
  {n \in DOMAIN o : HasRow(o, n) /\ o[n].status \in {OrderNew, OrderProcessing}}

\* ------------------------------------------------------------------- state
VARIABLES
  orders,       \* table orders: number -> [user_id, status, accrual]
  users,        \* table users: id -> [current_balance, withdrawn]
  withdrawals,  \* table withdrawals: sequence of [user_id, order_number, sum]
  rowLock,      \* users row lock (SELECT ... FOR UPDATE): id -> withdrawer or 0
  queue,        \* QueueManager.queue: the in-flight set
  jobChan,      \* QueueManager.jobChan: buffered channel of order numbers
  mu,           \* QueueManager.mu: <<>> when free, else the holder
  handler,      \* PostOrder requests in progress
  sweep,        \* the goroutine of QueueManager.Start
  worker,       \* the goroutines of QueueManager.worker
  withdrawer    \* WithdrawBalance requests in progress

vars == <<orders, users, withdrawals, rowLock, queue, jobChan, mu,
          handler, sweep, worker, withdrawer>>

dbVars == <<orders, users, withdrawals, rowLock>>
queueVars == <<queue, jobChan, mu>>

MuFree == <<>>
SweepHolder == <<"sweep">>
HandlerHolder(h) == <<"handler", h>>

HandlerIdle == [pc |-> "idle", userID |-> 0, orderNum |-> <<>>, status |-> StatusOK]
SweepIdle == [pc |-> "idle", pending |-> {}, order |-> <<>>]
\* requests counts the GETs of the current FetchAccrual, slept lists its
\* time.Sleep calls in seconds, code is the kind of the last response, and
\* ctxDone tells that the context of the call is cancelled (never for the
\* context.Background() of the worker loop).
WorkerIdle == [pc |-> "idle", order |-> <<>>, attempts |-> 0, backoff |-> 1, err |-> "nil",
               requests |-> 0, slept |-> <<>>, code |-> "", ctxDone |-> FALSE]
WithdrawerIdle == [pc |-> "idle", userID |-> 0, order |-> <<>>, sum |-> 0,
                   status |-> StatusOK, err |-> "nil"]

\* GetQueueManager: an empty in-flight set, an empty channel, the sweep and
\* the workers started; the tables hold the registered users with zero
\* balances and no orders.
Init ==
  /\ orders = [n \in AllNums |-> NoRow]
  /\ users = [u \in Users |-> [current_balance |-> 0, withdrawn |-> 0]]
  /\ withdrawals = <<>>
  /\ rowLock = [u \in Users |-> 0]
  /\ queue = {}
  /\ jobChan = <<>>
  /\ mu = MuFree
  /\ handler = [h \in Handlers |-> HandlerIdle]
  /\ sweep = SweepIdle
  /\ worker = [w \in Workers |-> WorkerIdle]
  /\ withdrawer = [r \in Withdrawers |-> WithdrawerIdle]

\* ------------------------------------------------------------ QueueManager
\* An EnqueueOrder without the in-flight check.
EnqueueNeverExists(n) == FALSE

\* EnqueueOrder line 118: the number is already in the in-flight set.
EnqueueExists(n) == n \in queue

\* jobChan <- orderNum can proceed: the buffer has room.
ChanHasRoom == Len(jobChan) < JobChanCap

\* ---------------------------------------------------------------- PostOrder
\* The request enters.  A number that fails the Luhn check is written to
\* the store as INVALID by UpdateOrder before the request is refused (dbOk =
\* FALSE: the statement fails and the request ends with an internal error).
\* Otherwise IsOrderExists (dbOk = FALSE: the query fails) and the ownership
\* checks.
PostOrderBegin(h, u, n, dbOk) ==
  /\ handler[h].pc = "idle"
  /\ LET req == [HandlerIdle EXCEPT !.userID = u, !.orderNum = n]
         realUserID == IsOrderExists(orders, n)
     IN handler' = [handler EXCEPT ![h] =
          IF ~IsValidLuhn(n)
          THEN [req EXCEPT !.pc = "done",
                           !.status = IF dbOk THEN StatusInvalid ELSE StatusError]
          ELSE IF ~dbOk THEN [req EXCEPT !.pc = "done", !.status = StatusError]
          ELSE IF realUserID = 0 THEN [req EXCEPT !.pc = "save"]
          ELSE IF u # realUserID THEN [req EXCEPT !.pc = "done", !.status = StatusConflict]
          ELSE [req EXCEPT !.pc = "enqueue", !.status = StatusAlreadyExist]]
  /\ orders' = IF ~IsValidLuhn(n) /\ dbOk
               THEN UpdateOrderRows(orders, [order |-> n, status |-> OrderInvalid, accrual |-> 0])
               ELSE orders
  /\ UNCHANGED <<users, withdrawals, rowLock, queueVars, sweep, worker, withdrawer>>

\* A handler that answers 202 for a new order and returns without
\* enqueueing it.
PostOrderSaveNoEnqueue(h, dbOk) ==
  /\ handler[h].pc = "save"
  /\ IF dbOk
     THEN /\ orders' = SaveOrder(orders, handler[h].userID, handler[h].orderNum, OrderNew, 0)
          /\ handler' = [handler EXCEPT ![h].pc = "done", ![h].status = StatusOK]
     ELSE /\ orders' = orders
          /\ handler' = [handler EXCEPT ![h].pc = "done", ![h].status = StatusError]
  /\ UNCHANGED <<users, withdrawals, rowLock, queueVars, sweep, worker, withdrawer>>

\* A SaveOrder whose error comes after the row is written.
PostOrderSaveFailsLate(h, dbOk) ==
  /\ handler[h].pc = "save"
  /\ orders' = SaveOrder(orders, handler[h].userID, handler[h].orderNum, OrderNew, 0)
  /\ handler' = IF dbOk
                THEN [handler EXCEPT ![h].pc = "enqueue", ![h].status = StatusOK]
                ELSE [handler EXCEPT ![h].pc = "done", ![h].status = StatusError]
  /\ UNCHANGED <<users, withdrawals, rowLock, queueVars, sweep, worker, withdrawer>>

\* realUserID == 0: SaveOrder with status NEW (dbOk = FALSE: the statement fails).
PostOrderSave(h, dbOk) ==
  /\ handler[h].pc = "save"
  /\ IF dbOk
     THEN /\ orders' = SaveOrder(orders, handler[h].userID, handler[h].orderNum, OrderNew, 0)
          /\ handler' = [handler EXCEPT ![h].pc = "enqueue", ![h].status = StatusOK]
     ELSE /\ orders' = orders
          /\ handler' = [handler EXCEPT ![h].pc = "done", ![h].status = StatusError]
  /\ UNCHANGED <<users, withdrawals, rowLock, queueVars, sweep, worker, withdrawer>>

\* EnqueueOrder, first half: lock mu, check the in-flight set, insert.
PostOrderEnqueue(h) ==
  /\ handler[h].pc = "enqueue"
  /\ mu = MuFree
  /\ IF EnqueueExists(handler[h].orderNum)
     THEN /\ handler' = [handler EXCEPT ![h].pc = "done"]
          /\ UNCHANGED <<queue, mu>>
     ELSE /\ queue' = queue \cup {handler[h].orderNum}
          /\ mu' = HandlerHolder(h)
          /\ handler' = [handler EXCEPT ![h].pc = "send"]
  /\ UNCHANGED <<dbVars, jobChan, sweep, worker, withdrawer>>

\* EnqueueOrder, second half: the send on jobChan (blocks while the buffer
\* is full), then the deferred unlock.
PostOrderSend(h) ==
  /\ handler[h].pc = "send"
  /\ ChanHasRoom
  /\ jobChan' = Append(jobChan, handler[h].orderNum)
  /\ mu' = MuFree
  /\ handler' = [handler EXCEPT ![h].pc = "done"]
  /\ UNCHANGED <<dbVars, queue, sweep, worker, withdrawer>>

\* The response is written and the request ends.
PostOrderReturn(h) ==
  /\ handler[h].pc = "done"
  /\ handler' = [handler EXCEPT ![h] = HandlerIdle]
  /\ UNCHANGED <<dbVars, queueVars, sweep, worker, withdrawer>>

\* -------------------------------------------------------------------- sweep
\* A tick of the ticker: processPendingOrders queries the pending numbers
\* (dbOk = FALSE: the query fails and the tick ends).  The rows come back in
\* no particular order, so the loop below takes them in any order.
SweepTick(dbOk) ==
  /\ sweep.pc = "idle"
  /\ sweep' = IF dbOk /\ GetPendingOrders(orders) # {}
              THEN [sweep EXCEPT !.pc = "loop", !.pending = GetPendingOrders(orders)]
              ELSE sweep
  /\ UNCHANGED <<dbVars, queueVars, handler, worker, withdrawer>>

SweepAfter(n) ==
  IF sweep.pending \ {n} = {} THEN SweepIdle
  ELSE [pc |-> "loop", pending |-> sweep.pending \ {n}, order |-> <<>>]

SweepEnqueue(n) ==
  /\ sweep.pc = "loop"
  /\ n \in sweep.pending
  /\ mu = MuFree
  /\ IF EnqueueExists(n)
     THEN /\ sweep' = SweepAfter(n)
          /\ UNCHANGED <<queue, mu>>
     ELSE /\ queue' = queue \cup {n}
          /\ mu' = SweepHolder
          /\ sweep' = [sweep EXCEPT !.pc = "send", !.order = n]
  /\ UNCHANGED <<dbVars, jobChan, handler, worker, withdrawer>>

SweepSend ==
  /\ sweep.pc = "send"
  /\ ChanHasRoom
  /\ jobChan' = Append(jobChan, sweep.order)
  /\ mu' = MuFree
  /\ sweep' = SweepAfter(sweep.order)
  /\ UNCHANGED <<dbVars, queue, handler, worker, withdrawer>>

\* ------------------------------------------------------------- FetchAccrual
\* What one GET to the accrual service can produce.  kind "error" is a
\* transport failure; retry is the Retry-After header of a 429 (has: it is
\* set, num: strconv.Atoi accepts it, secs: its value); decodable, order,
\* status and accrual describe the body of a 200 and of every other status
\* that FetchAccrual does not single out (kind "503").
Response(kind, retry, decodable, order, status, accrual) ==
  [kind |-> kind, retry |-> retry, decodable |-> decodable,
   order |-> order, status |-> status, accrual |-> accrual]
NoRetryAfter == [has |-> FALSE, num |-> FALSE, secs |-> 0]
BadRetryAfter == [has |-> TRUE, num |-> FALSE, secs |-> 0]
RetryAfter(d) == [has |-> TRUE, num |-> TRUE, secs |-> d]
PlainResponse(kind) == Response(kind, NoRetryAfter, FALSE, <<>>, "", 0)
Decision(order, status, accrual) == Response("200", NoRetryAfter, TRUE, order, status, accrual)
\* A response whose body is the JSON object {}: it decodes into the zero
\* AccrualResponse.
EmptyObject(kind) == Response(kind, NoRetryAfter, TRUE, <<>>, "", 0)

\* A retry loop that does not grow its backoff.
NextBackoffSame(backoff) == backoff

\* backoff *= 2
NextBackoff(backoff) == backoff * 2

\* backoff = time.Second, after a Retry-After header was read.
ResetBackoff(backoff) == 1

\* A pass that hands whatever it received to UpdateOrder.
FetchAccrualStepStoresAll(attempts, backoff, resp) ==
  [attempts |-> attempts, backoff |-> backoff, sleep |-> 0, ret |-> "update"]

\* One pass of the for loop of FetchAccrual, for the loop state (attempts,
\* backoff in seconds) and the response the request of this pass receives:
\* the new loop state, the seconds slept, and ret: "continue", "update"
\* (the decision is decoded, UpdateOrder is next) or the error returned.
FetchAccrualStep(attempts, backoff, resp) ==
  IF attempts >= maxAttempts
  THEN [attempts |-> attempts, backoff |-> backoff, sleep |-> 0, ret |-> "max retries reached"]
  ELSE IF resp.kind = "error"
  THEN [attempts |-> attempts + 1, backoff |-> NextBackoff(backoff), sleep |-> backoff,
        ret |-> "continue"]
  ELSE IF resp.kind = "204"
  THEN [attempts |-> attempts, backoff |-> backoff, sleep |-> 0, ret |-> "order not registered"]
  ELSE IF resp.kind = "429"
  THEN IF resp.retry.has /\ resp.retry.num
       THEN [attempts |-> attempts, backoff |-> ResetBackoff(backoff),
             sleep |-> resp.retry.secs, ret |-> "continue"]
       ELSE [attempts |-> attempts, backoff |-> backoff, sleep |-> 0, ret |-> "continue"]
  ELSE IF resp.kind = "500"
  THEN [attempts |-> attempts, backoff |-> backoff, sleep |-> 0, ret |-> "internal server error"]
  ELSE IF ~resp.decodable
  THEN [attempts |-> attempts, backoff |-> backoff, sleep |-> 0, ret |-> "decode error"]
  ELSE [attempts |-> attempts, backoff |-> backoff, sleep |-> 0, ret |-> "update"]

\* ------------------------------------------------------------------ workers
\* A users row without locking.
RowLockIgnored(u) == TRUE

\* SELECT ... FOR UPDATE / UPDATE users can take the row: no transaction
\* holds its lock.
RowLockFree(u) == rowLock[u] = 0

\* A committed change of users row u fails every serializable transaction
\* that is waiting for the row with an older snapshot.
MarkStale(wd, u) ==
  [r \in DOMAIN wd |->
     IF wd[r].pc = "blocked" /\ wd[r].userID = u THEN [wd[r] EXCEPT !.pc = "stale"] ELSE wd[r]]

\* for order := range q.jobChan
WorkerReceive(w) ==
  /\ worker[w].pc = "idle"
  /\ jobChan # <<>>
  /\ worker' = [worker EXCEPT ![w] = [WorkerIdle EXCEPT !.pc = "fetch", !.order = Head(jobChan)]]
  /\ jobChan' = Tail(jobChan)
  /\ UNCHANGED <<dbVars, queue, mu, handler, sweep, withdrawer>>

\* The requests of one call are counted exactly up to MaxRequests, more
\* than a call makes against a service that rate-limits at most
\* MaxRateLimited times; a call that goes on beyond that moves between
\* MaxRequests - 1 and MaxRequests, so that each further request still
\* shows.
MaxRequests == maxAttempts + MaxRateLimited + 1

\* A pass of FetchAccrual that ends in "continue": a transport failure or a 429.
WorkerFetchRetry(w, resp) ==
  /\ worker[w].pc = "fetch"
  /\ LET st == FetchAccrualStep(worker[w].attempts, worker[w].backoff, resp)
     IN /\ st.ret = "continue"
        /\ worker' = [worker EXCEPT ![w].attempts = st.attempts, ![w].backoff = st.backoff,
                                    ![w].requests = IF @ < MaxRequests THEN @ + 1 ELSE @ - 1,
                                    ![w].code = resp.kind,
                                    ![w].slept = IF st.sleep > 0 THEN Append(@, st.sleep) ELSE @]
  /\ UNCHANGED <<dbVars, queueVars, handler, sweep, withdrawer>>

\* A pass of FetchAccrual that returns an error without calling UpdateOrder.
WorkerFetchFail(w, resp) ==
  /\ worker[w].pc = "fetch"
  /\ LET st == FetchAccrualStep(worker[w].attempts, worker[w].backoff, resp)
     IN /\ st.ret \notin {"continue", "update"}
        /\ worker' = [worker EXCEPT ![w].pc = "dequeue", ![w].err = st.ret,
                                    ![w].code =
                                      IF st.ret = "max retries reached" THEN @ ELSE resp.kind,
                                    ![w].requests =
                                      IF st.ret = "max retries reached" THEN @ ELSE @ + 1]
  /\ UNCHANGED <<dbVars, queueVars, handler, sweep, withdrawer>>

\* The pass that decodes a decision and calls UpdateOrder with it (dbOk =
\* FALSE: the statement fails and nothing is written).  The statement waits
\* while a withdrawal holds the lock of the users row it credits.
WorkerFetchUpdate(w, resp, dbOk) ==
  /\ worker[w].pc = "fetch"
  /\ FetchAccrualStep(worker[w].attempts, worker[w].backoff, resp).ret = "update"
  /\ LET credit == UpdateOrderCredit(orders, resp)
         owner == orders[resp.order].user_id
     IN IF dbOk
        THEN /\ orders' = UpdateOrderRows(orders, resp)
             /\ IF credit > 0
                THEN /\ RowLockFree(owner)
                     /\ users[owner].current_balance + credit <= MaxBalance
                     /\ users' = [users EXCEPT ![owner].current_balance = @ + credit]
                     /\ withdrawer' = MarkStale(withdrawer, owner)
                ELSE UNCHANGED <<users, withdrawer>>
             /\ worker' = [worker EXCEPT ![w].pc = "dequeue", ![w].err = "nil",
                                         ![w].code = resp.kind, ![w].requests = @ + 1]
        ELSE /\ worker' = [worker EXCEPT ![w].pc = "dequeue", ![w].err = "db error",
                                         ![w].code = resp.kind, ![w].requests = @ + 1]
             /\ UNCHANGED <<orders, users, withdrawer>>
  /\ UNCHANGED <<withdrawals, rowLock, queueVars, handler, sweep>>

\* A worker that goes back to the channel without DequeueOrder.
WorkerDequeueKeeps(w) ==
  /\ worker[w].pc = "dequeue"
  /\ mu = MuFree
  /\ worker' = [worker EXCEPT ![w] = WorkerIdle]
  /\ UNCHANGED <<dbVars, queueVars, handler, sweep, withdrawer>>

\* q.DequeueOrder(order): lock mu, delete from the in-flight set, unlock.
WorkerDequeue(w) ==
  /\ worker[w].pc = "dequeue"
  /\ mu = MuFree
  /\ queue' = queue \ {worker[w].order}
  /\ worker' = [worker EXCEPT ![w] = WorkerIdle]
  /\ UNCHANGED <<dbVars, jobChan, mu, handler, sweep, withdrawer>>

\* ---------------------------------------------------------- WithdrawBalance
\* A handler that accepts every sum.
InvalidSumNever(sum) == FALSE

\* WithdrawBalance: if req.Sum <= 0, the request is refused.
InvalidSum(sum) == sum <= 0

\* The request enters: the handler's checks of the number and of the sum,
\* then CreateWithdraw up to its balance pre-check (dbOk = FALSE:
\* GetUserBalance fails).
WithdrawBegin(r, u, n, sum, dbOk) ==
  /\ withdrawer[r].pc = "idle"
  /\ LET req == [WithdrawerIdle EXCEPT !.userID = u, !.order = n, !.sum = sum]
     IN withdrawer' = [withdrawer EXCEPT ![r] =
          IF ~IsValidLuhn(n) THEN [req EXCEPT !.pc = "done", !.status = StatusInvalid]
          ELSE IF InvalidSum(sum) THEN [req EXCEPT !.pc = "done", !.status = StatusInvalid]
          ELSE IF ~dbOk THEN [req EXCEPT !.pc = "done", !.status = StatusError]
          ELSE IF users[u].current_balance < sum
               THEN [req EXCEPT !.pc = "done", !.status = StatusConflict]
          ELSE [req EXCEPT !.pc = "tx"]]
  /\ UNCHANGED <<dbVars, queueVars, handler, sweep, worker>>

\* Withdraw once the row lock is taken by SELECT ... FOR UPDATE: the
\* sufficiency check on the balance read under the lock.
WithdrawCheck(r) ==
  IF users[withdrawer[r].userID].current_balance < withdrawer[r].sum
  THEN /\ withdrawer' = [withdrawer EXCEPT ![r].pc = "done", ![r].status = StatusError,
                                           ![r].err = "insufficient funds"]
       /\ UNCHANGED rowLock
  ELSE /\ withdrawer' = [withdrawer EXCEPT ![r].pc = "locked"]
       /\ rowLock' = [rowLock EXCEPT ![withdrawer[r].userID] = r]

\* db.Withdraw: BeginTx and the SELECT ... FOR UPDATE (dbOk = FALSE: one of
\* them fails).  With the row locked by another transaction the statement
\* waits.
WithdrawSelect(r, dbOk) ==
  /\ withdrawer[r].pc = "tx"
  /\ IF ~dbOk
     THEN /\ withdrawer' = [withdrawer EXCEPT ![r].pc = "done", ![r].status = StatusError,
                                              ![r].err = "db error"]
          /\ UNCHANGED rowLock
     ELSE IF RowLockFree(withdrawer[r].userID)
     THEN WithdrawCheck(r)
     ELSE /\ withdrawer' = [withdrawer EXCEPT ![r].pc = "blocked"]
          /\ UNCHANGED rowLock
  /\ UNCHANGED <<orders, users, withdrawals, queueVars, handler, sweep, worker>>

\* The waiting SELECT ... FOR UPDATE goes on once the lock is released: with
\* a serialization failure if the row was changed meanwhile, else with the
\* row.
WithdrawResume(r) ==
  /\ withdrawer[r].pc \in {"blocked", "stale"}
  /\ RowLockFree(withdrawer[r].userID)
  /\ IF withdrawer[r].pc = "stale"
     THEN /\ withdrawer' = [withdrawer EXCEPT ![r].pc = "done", ![r].status = StatusError,
                                              ![r].err = "db error"]
          /\ UNCHANGED rowLock
     ELSE WithdrawCheck(r)
  /\ UNCHANGED <<orders, users, withdrawals, queueVars, handler, sweep, worker>>

\* A Withdraw that updates the users row without inserting the record.
WithdrawCommitNoRecord(r, dbOk) ==
  /\ withdrawer[r].pc = "locked"
  /\ LET u == withdrawer[r].userID
         sum == withdrawer[r].sum
     IN IF dbOk
        THEN /\ users' = [users EXCEPT ![u].current_balance = @ - sum, ![u].withdrawn = @ + sum]
             /\ rowLock' = [rowLock EXCEPT ![u] = 0]
             /\ withdrawer' = [MarkStale(withdrawer, u) EXCEPT ![r].pc = "done",
                                                               ![r].status = StatusOK]
             /\ UNCHANGED withdrawals
        ELSE /\ rowLock' = [rowLock EXCEPT ![u] = 0]
             /\ withdrawer' = [withdrawer EXCEPT ![r].pc = "done", ![r].status = StatusError,
                                                 ![r].err = "db error"]
             /\ UNCHANGED <<users, withdrawals>>
  /\ UNCHANGED <<orders, queueVars, handler, sweep, worker>>

\* A Withdraw without the deferred Rollback: the record inserted before the
\* failing statement stays.
WithdrawCommitNoRollback(r, dbOk) ==
  /\ withdrawer[r].pc = "locked"
  /\ Len(withdrawals) < MaxWithdrawals
  /\ LET u == withdrawer[r].userID
         sum == withdrawer[r].sum
     IN /\ withdrawals' = Append(withdrawals,
             [user_id |-> u, order_number |-> withdrawer[r].order, sum |-> sum])
        /\ rowLock' = [rowLock EXCEPT ![u] = 0]
        /\ IF dbOk
           THEN /\ users' = [users EXCEPT ![u].current_balance = @ - sum,
                                          ![u].withdrawn = @ + sum]
                /\ withdrawer' = [MarkStale(withdrawer, u) EXCEPT ![r].pc = "done",
                                                                  ![r].status = StatusOK]
           ELSE /\ withdrawer' = [withdrawer EXCEPT ![r].pc = "done",
                                     ![r].status = StatusError, ![r].err = "db error"]
                /\ UNCHANGED users
  /\ UNCHANGED <<orders, queueVars, handler, sweep, worker>>

\* INSERT INTO withdrawals, UPDATE users, Commit (dbOk = FALSE: one of them
\* fails and the deferred Rollback undoes the transaction).
WithdrawCommit(r, dbOk) ==
  /\ withdrawer[r].pc = "locked"
  /\ LET u == withdrawer[r].userID
         sum == withdrawer[r].sum
     IN IF dbOk
        THEN /\ Len(withdrawals) < MaxWithdrawals
             /\ withdrawals' = Append(withdrawals,
                  [user_id |-> u, order_number |-> withdrawer[r].order, sum |-> sum])
             /\ users' = [users EXCEPT ![u].current_balance = @ - sum, ![u].withdrawn = @ + sum]
             /\ rowLock' = [rowLock EXCEPT ![u] = 0]
             /\ withdrawer' = [MarkStale(withdrawer, u) EXCEPT ![r].pc = "done",
                                                               ![r].status = StatusOK]
        ELSE /\ rowLock' = [rowLock EXCEPT ![u] = 0]
             /\ withdrawer' = [withdrawer EXCEPT ![r].pc = "done", ![r].status = StatusError,
                                                 ![r].err = "db error"]
             /\ UNCHANGED <<users, withdrawals>>
  /\ UNCHANGED <<orders, queueVars, handler, sweep, worker>>

WithdrawReturn(r) ==
  /\ withdrawer[r].pc = "done"
  /\ withdrawer' = [withdrawer EXCEPT ![r] = WithdrawerIdle]
  /\ UNCHANGED <<dbVars, queueVars, handler, sweep, worker>>

\* ---------------------------------------------------------- accrual service
\* The decisions of an accrual service that follows its API and does not go
\* back on a terminal decision: the order field is the number asked for, an
\* accrual comes only with PROCESSED, and a number whose stored decision is
\* terminal gets that decision again.
StableDecisions(o, n) ==
  IF HasRow(o, n) /\ o[n].status \in {OrderProcessed, OrderInvalid}
  THEN {Decision(n, o[n].status, IF o[n].accrual.valid THEN o[n].accrual.val ELSE 0)}
  ELSE {Decision(n, s, a) : s \in AccrualStatuses, a \in 0..MaxAccrual} \
       {Decision(n, s, a) : s \in AccrualStatuses \ {OrderProcessed}, a \in 1..MaxAccrual}

\* Server faults and broken bodies can come at any time; 204 comes for a
\* number the service has not decided.  Every request is answered: the
\* retries after transport failures and 429 answers are in SpecFetch.
StableResponses(o, n) ==
  StableDecisions(o, n)
  \cup {PlainResponse("500"), PlainResponse("200")}
  \cup (IF HasRow(o, n) /\ o[n].status \in {OrderProcessed, OrderInvalid}
        THEN {} ELSE {PlainResponse("204")})

\* ------------------------------------------------------------ specification
\* The order pipeline: submissions, the sweep and the workers, against a
\* stable accrual service.
\* What the request of worker w can receive while it is in FetchAccrual.
ResponsesFor(w) ==
  IF worker[w].pc = "fetch" THEN StableResponses(orders, worker[w].order) ELSE {}

WorkerStep(w) ==
  \/ WorkerReceive(w)
  \/ \E resp \in ResponsesFor(w) : WorkerFetchFail(w, resp)
  \/ \E resp \in ResponsesFor(w), dbOk \in BOOLEAN : WorkerFetchUpdate(w, resp, dbOk)
  \/ WorkerDequeue(w)

SweepStep ==
  \/ \E dbOk \in BOOLEAN : SweepTick(dbOk)
  \/ \E n \in AllNums : SweepEnqueue(n)
  \/ SweepSend

PostOrderStep(h) ==
  \/ \E u \in Users, n \in OrderNums, dbOk \in BOOLEAN : PostOrderBegin(h, u, n, dbOk)
  \/ \E dbOk \in BOOLEAN : PostOrderSave(h, dbOk)
  \/ PostOrderEnqueue(h)
  \/ PostOrderSend(h)
  \/ PostOrderReturn(h)

Next ==
  \/ \E h \in Handlers : PostOrderStep(h)
  \/ SweepStep
  \/ \E w \in Workers : WorkerStep(w)

Spec == Init /\ [][Next]_vars

\* The pipeline when every number is submitted at most once: a request
\* comes only for a number that has no row.
PostOrderOnce(h) ==
  \/ \E u \in Users, n \in OrderNums, dbOk \in BOOLEAN :
       ~HasRow(orders, n) /\ PostOrderBegin(h, u, n, dbOk)
  \/ \E dbOk \in BOOLEAN : PostOrderSave(h, dbOk)
  \/ PostOrderEnqueue(h)
  \/ PostOrderSend(h)
  \/ PostOrderReturn(h)

NextOnce ==
  \/ \E h \in Handlers : PostOrderOnce(h)
  \/ SweepStep
  \/ \E w \in Workers : WorkerStep(w)

SpecOnce == Init /\ [][NextOnce]_vars

\* Concurrent submissions of one number: one request more than in Spec, any
\* of the users, no sweep.
RaceHandlers == 1..(NumHandlers + 1)
RaceNums == {<<1, 8>>}

InitRace ==
  /\ orders = [n \in AllNums |-> NoRow]
  /\ users = [u \in Users |-> [current_balance |-> 0, withdrawn |-> 0]]
  /\ withdrawals = <<>>
  /\ rowLock = [u \in Users |-> 0]
  /\ queue = {}
  /\ jobChan = <<>>
  /\ mu = MuFree
  /\ handler = [h \in RaceHandlers |-> HandlerIdle]
  /\ sweep = SweepIdle
  /\ worker = [w \in Workers |-> WorkerIdle]
  /\ withdrawer = [r \in Withdrawers |-> WithdrawerIdle]

PostOrderRace(h) ==
  \/ \E u \in Users, n \in RaceNums, dbOk \in BOOLEAN : PostOrderBegin(h, u, n, dbOk)
  \/ \E dbOk \in BOOLEAN : PostOrderSave(h, dbOk)
  \/ PostOrderEnqueue(h)
  \/ PostOrderSend(h)
  \/ PostOrderReturn(h)

NextRace ==
  \/ \E h \in RaceHandlers : PostOrderRace(h)
  \/ \E w \in Workers : WorkerStep(w)

SpecRace == InitRace /\ [][NextRace]_vars

\* The store under an accrual service that may send any decision for the
\* number asked: any status with any accrual, also after a terminal one.
AnyDecisions(n) == {Decision(n, st, a) : st \in AccrualStatuses, a \in 0..MaxAccrual}

AnyWorkerFetch(w) ==
  /\ worker[w].pc = "fetch"
  /\ \E resp \in AnyDecisions(worker[w].order), dbOk \in BOOLEAN : WorkerFetchUpdate(w, resp, dbOk)

\* The withdrawals: requests of any user for any sum, charged to one valid
\* or one invalid number.
WithdrawNums == {<<1, 8>>, <<1, 2>>}

WithdrawStep(r) ==
  \/ \E u \in Users, n \in WithdrawNums, sum \in -1..MaxSum, dbOk \in BOOLEAN :
       WithdrawBegin(r, u, n, sum, dbOk)
  \/ \E dbOk \in BOOLEAN : WithdrawSelect(r, dbOk)
  \/ WithdrawResume(r)
  \/ \E dbOk \in BOOLEAN : WithdrawCommit(r, dbOk)
  \/ WithdrawReturn(r)

\* The ledger: user 1 has an accepted order waiting for its decision; the
\* sweep and the workers bring the credits, the users withdraw.
InitLedger ==
  /\ orders = [n \in AllNums |->
                 IF n = <<1, 8>> THEN [user_id |-> 1, status |-> OrderNew, accrual |-> NullFloat64(0, TRUE)]
                 ELSE NoRow]
  /\ users = [u \in Users |-> [current_balance |-> 0, withdrawn |-> 0]]
  /\ withdrawals = <<>>
  /\ rowLock = [u \in Users |-> 0]
  /\ queue = {}
  /\ jobChan = <<>>
  /\ mu = MuFree
  /\ handler = [h \in Handlers |-> HandlerIdle]
  /\ sweep = SweepIdle
  /\ worker = [w \in Workers |-> WorkerIdle]
  /\ withdrawer = [r \in Withdrawers |-> WithdrawerIdle]

NextLedger ==
  \/ SweepStep
  \/ \E w \in Workers : WorkerStep(w)
  \/ \E r \in Withdrawers : WithdrawStep(r)

SpecLedger == InitLedger /\ [][NextLedger]_vars

NextAny ==
  \/ SweepStep
  \/ \E w \in Workers : WorkerReceive(w)
  \/ \E w \in Workers : AnyWorkerFetch(w)
  \/ \E w \in Workers : WorkerDequeue(w)

SpecAny == InitLedger /\ [][NextAny]_vars

\* FetchAccrual against an accrual service that can also be unreachable
\* (transport failure), can answer 503 with or without a JSON body, and can
\* rate-limit, with or without a Retry-After header that strconv.Atoi
\* accepts.
FetchResponses(w) ==
  IF worker[w].pc # "fetch" THEN {}
  ELSE StableResponses(orders, worker[w].order)
       \cup {PlainResponse("error"), PlainResponse("503"), EmptyObject("503")}
       \cup (IF worker[w].requests - worker[w].attempts < MaxRateLimited
             THEN {PlainResponse("429"),
                   Response("429", BadRetryAfter, FALSE, <<>>, "", 0),
                   Response("429", RetryAfter(3), FALSE, <<>>, "", 0)}
             ELSE {})

NextFetch ==
  \/ SweepStep
  \/ \E w \in Workers : WorkerReceive(w)
  \/ \E w \in Workers : \E resp \in FetchResponses(w) : WorkerFetchRetry(w, resp)
  \/ \E w \in Workers : \E resp \in FetchResponses(w) : WorkerFetchFail(w, resp)
  \/ \E w \in Workers : \E resp \in FetchResponses(w), dbOk \in BOOLEAN :
       WorkerFetchUpdate(w, resp, dbOk)
  \/ \E w \in Workers : WorkerDequeue(w)

SpecFetch == InitLedger /\ [][NextFetch]_vars

\* FetchAccrual called with a context that can be cancelled, as its test
\* calls it.  The loop looks at the context once per pass, after the check
\* of attempts and before the request.
FetchAccrualCtx(ctxDone, attempts, backoff, resp) ==
  IF attempts < maxAttempts /\ ctxDone
  THEN [attempts |-> attempts, backoff |-> backoff, sleep |-> 0, ret |-> "context canceled"]
  ELSE FetchAccrualStep(attempts, backoff, resp)

\* One pass of FetchAccrual under such a context.  cancelAt tells where the
\* pass is when the context is cancelled: "request" (inside s.client.Get,
\* which does not take the context), "sleep" (inside time.Sleep) or "none".
\* The cancellation changes nothing in the pass but UpdateOrder, whose
\* ExecContext fails with the error of a context that is done.  The pass
\* that reaches UpdateOrder with a live context is WorkerFetchUpdate.
WorkerFetchCtx(w, resp, cancelAt) ==
  /\ worker[w].pc = "fetch"
  /\ LET st == FetchAccrualCtx(worker[w].ctxDone, worker[w].attempts, worker[w].backoff, resp)
         asked == st.ret \notin {"max retries reached", "context canceled"}
     IN /\ cancelAt = "request" => asked
        /\ cancelAt = "sleep" => st.ret = "continue" /\ st.sleep > 0
        /\ st.ret = "update" => cancelAt = "request"
        /\ worker' = [worker EXCEPT ![w] =
             IF st.ret = "continue"
             THEN [@ EXCEPT !.attempts = st.attempts, !.backoff = st.backoff,
                            !.requests = @ + 1, !.code = resp.kind,
                            !.slept = IF st.sleep > 0 THEN Append(@, st.sleep) ELSE @,
                            !.ctxDone = @ \/ cancelAt # "none"]
             ELSE IF st.ret = "update"
             THEN [@ EXCEPT !.pc = "dequeue", !.err = "context canceled",
                            !.requests = @ + 1, !.code = resp.kind, !.ctxDone = TRUE]
             ELSE [@ EXCEPT !.pc = "dequeue", !.err = st.ret,
                            !.requests = IF asked THEN @ + 1 ELSE @,
                            !.code = IF asked THEN resp.kind ELSE @,
                            !.ctxDone = @ \/ cancelAt # "none"]]
  /\ UNCHANGED <<dbVars, queueVars, handler, sweep, withdrawer>>

NextCancel ==
  \/ SweepStep
  \/ \E w \in Workers : WorkerReceive(w)
  \/ \E w \in Workers : \E resp \in FetchResponses(w), cancelAt \in {"none", "request", "sleep"} :
       WorkerFetchCtx(w, resp, cancelAt)
  \/ \E w \in Workers : \E resp \in FetchResponses(w), dbOk \in BOOLEAN :
       ~worker[w].ctxDone /\ WorkerFetchUpdate(w, resp, dbOk)
  \/ \E w \in Workers : WorkerDequeue(w)

SpecCancel == InitLedger /\ [][NextCancel]_vars

\* FetchAccrual under context.Background() against an accrual service that
\* may rate-limit without end: besides the stable answers, a transport
\* failure or a 429 without Retry-After at any request.  A call that has
\* begun keeps running: the pass that is due is taken.
LoopResponses(w) ==
  IF worker[w].pc # "fetch" THEN {}
  ELSE StableResponses(orders, worker[w].order)
       \cup {PlainResponse("error"), PlainResponse("429")}

WorkerFetchPass(w) ==
  \/ \E resp \in LoopResponses(w) : WorkerFetchRetry(w, resp)
  \/ \E resp \in LoopResponses(w) : WorkerFetchFail(w, resp)
  \/ \E resp \in LoopResponses(w), dbOk \in BOOLEAN : WorkerFetchUpdate(w, resp, dbOk)

NextLoop ==
  \/ SweepStep
  \/ \E w \in Workers : WorkerReceive(w)
  \/ \E w \in Workers : WorkerFetchPass(w)
  \/ \E w \in Workers : WorkerDequeue(w)

FairFetch ==
  /\ InitLedger
  /\ [][NextLoop]_vars
  /\ \A w \in Workers : WF_vars(WorkerFetchPass(w))

\* The end of the process.  main blocks in server.Init, that is in
\* http.ListenAndServe; when that returns, main ends through
\* logger.Fatal or through storage.CloseDB() and its own return.
\* Nothing closes jobChan or stops the ticker of Start before: the workers
\* and the sweep end with the process, wherever they are.  The end of the
\* process is recorded in the position of the sweep goroutine.
ProcessAlive == sweep.pc # "exited"

MainReturn ==
  /\ ProcessAlive
  /\ sweep' = [sweep EXCEPT !.pc = "exited"]
  /\ UNCHANGED <<dbVars, queueVars, handler, worker, withdrawer>>

\* The sweep stops by its position, a worker steps only in a living process.
NextShutdown ==
  \/ SweepStep
  \/ \E w \in Workers : WorkerStep(w) /\ ProcessAlive
  \/ MainReturn

SpecShutdown == InitLedger /\ [][NextShutdown]_vars

\* The queue manager after a restart: the orders of QueueNums are stored
\* with a non-terminal status, the in-flight set and the channel are
\* rebuilt empty, no request is in progress.
InitSweep ==
  /\ orders \in [AllNums -> {NoRow} \cup
                   {[user_id |-> 1, status |-> st, accrual |-> NullFloat64(0, TRUE)] :
                      st \in {OrderNew, OrderProcessing}}]
  /\ \A n \in AllNums : HasRow(orders, n) <=> n \in QueueNums
  /\ users = [u \in Users |-> [current_balance |-> 0, withdrawn |-> 0]]
  /\ withdrawals = <<>>
  /\ rowLock = [u \in Users |-> 0]
  /\ queue = {}
  /\ jobChan = <<>>
  /\ mu = MuFree
  /\ handler = [h \in Handlers |-> HandlerIdle]
  /\ sweep = SweepIdle
  /\ worker = [w \in Workers |-> WorkerIdle]
  /\ withdrawer = [r \in Withdrawers |-> WithdrawerIdle]

\* The restarted queue manager under the assumptions of the progress
\* claims: the store
\* answers, the accrual service answers every number with a terminal
\* decision, every goroutine that can run does run, and a goroutine waiting
\* for mu gets it if mu is free again and again.
FairDecisions(n) == {Decision(n, OrderInvalid, 0), Decision(n, OrderProcessed, 0)}

FairWorkerFetch(w) ==
  /\ worker[w].pc = "fetch"
  /\ \E resp \in FairDecisions(worker[w].order) : WorkerFetchUpdate(w, resp, TRUE)

NextFair ==
  \/ SweepTick(TRUE)
  \/ \E n \in AllNums : SweepEnqueue(n)
  \/ SweepSend
  \/ \E w \in Workers : WorkerReceive(w)
  \/ \E w \in Workers : FairWorkerFetch(w)
  \/ \E w \in Workers : WorkerDequeue(w)

FairSweep ==
  /\ InitSweep
  /\ [][NextFair]_vars
  /\ WF_vars(SweepTick(TRUE))
  /\ SF_vars(\E n \in AllNums : SweepEnqueue(n))
  /\ WF_vars(SweepSend)
  /\ \A w \in Workers : /\ WF_vars(WorkerReceive(w))
                        /\ WF_vars(FairWorkerFetch(w))
                        /\ SF_vars(WorkerDequeue(w))

\* Two users with one stored order each, against an accrual service whose
\* body names any stored number, not only the one asked for: UpdateOrder
\* takes the number from the body.
InitPair ==
  /\ orders = [n \in AllNums |->
                 IF n = <<1, 8>>
                 THEN [user_id |-> 1, status |-> OrderNew, accrual |-> NullFloat64(0, TRUE)]
                 ELSE IF n = <<2, 6>>
                 THEN [user_id |-> 2, status |-> OrderNew, accrual |-> NullFloat64(0, TRUE)]
                 ELSE NoRow]
  /\ users = [u \in Users |-> [current_balance |-> 0, withdrawn |-> 0]]
  /\ withdrawals = <<>>
  /\ rowLock = [u \in Users |-> 0]
  /\ queue = {}
  /\ jobChan = <<>>
  /\ mu = MuFree
  /\ handler = [h \in Handlers |-> HandlerIdle]
  /\ sweep = SweepIdle
  /\ worker = [w \in Workers |-> WorkerIdle]
  /\ withdrawer = [r \in Withdrawers |-> WithdrawerIdle]

ForeignDecisions ==
  {Decision(m, OrderInvalid, 0) : m \in ValidNums}
  \cup {Decision(m, OrderProcessed, MaxAccrual) : m \in ValidNums}

ForeignWorkerFetch(w) ==
  /\ worker[w].pc = "fetch"
  /\ \E resp \in ForeignDecisions : WorkerFetchUpdate(w, resp, TRUE)

NextForeign ==
  \/ SweepStep
  \/ \E w \in Workers : WorkerReceive(w)
  \/ \E w \in Workers : ForeignWorkerFetch(w)
  \/ \E w \in Workers : WorkerDequeue(w)

SpecForeign == InitPair /\ [][NextForeign]_vars

\* The earlier version of the queue manager, the one the enqueue line of
\* PostOrder is written against: GetQueueManager() declares its sync.Once
\* inside the function, so every call runs the initialisation: a new
\* manager with a new JobQueue of capacity 100 overwrites managerInstance
\* and StartWorkers starts workerPool more worker loops.  The handler then
\* sends its job on the new channel, which has room.  The worker loops are
\* the domain of worker; before the first call there is none.  The loops of
\* that version range over their channel, call FetchAccrual and loop; there
\* is no in-flight set and no sweep.  The channels are kept as one sequence.
InitManager ==
  /\ orders = [n \in AllNums |-> NoRow]
  /\ users = [u \in Users |-> [current_balance |-> 0, withdrawn |-> 0]]
  /\ withdrawals = <<>>
  /\ rowLock = [u \in Users |-> 0]
  /\ queue = {}
  /\ jobChan = <<>>
  /\ mu = MuFree
  /\ handler = [h \in Handlers |-> HandlerIdle]
  /\ sweep = SweepIdle
  /\ worker = <<>>
  /\ withdrawer = [r \in Withdrawers |-> WithdrawerIdle]

GetQueueManagerLocalOnce(h) ==
  /\ handler[h].pc = "enqueue"
  /\ Len(worker) < MaxManagers * WorkerPool
  /\ worker' = worker \o [i \in 1..WorkerPool |-> WorkerIdle]
  /\ jobChan' = Append(jobChan, handler[h].orderNum)
  /\ handler' = [handler EXCEPT ![h].pc = "done"]
  /\ UNCHANGED <<dbVars, queue, mu, sweep, withdrawer>>

\* The loop of a worker of that version goes back to its channel.
WorkerLoop(w) ==
  /\ worker[w].pc = "dequeue"
  /\ worker' = [worker EXCEPT ![w] = WorkerIdle]
  /\ UNCHANGED <<dbVars, queueVars, handler, sweep, withdrawer>>

NextManager ==
  \/ \E h \in Handlers, u \in Users, n \in OrderNums, dbOk \in BOOLEAN :
       PostOrderBegin(h, u, n, dbOk)
  \/ \E h \in Handlers, dbOk \in BOOLEAN : PostOrderSave(h, dbOk)
  \/ \E h \in Handlers : GetQueueManagerLocalOnce(h)
  \/ \E h \in Handlers : PostOrderReturn(h)
  \/ \E w \in DOMAIN worker : WorkerReceive(w)
  \/ \E w \in DOMAIN worker : \E resp \in ResponsesFor(w) : WorkerFetchFail(w, resp)
  \/ \E w \in DOMAIN worker : \E resp \in ResponsesFor(w), dbOk \in BOOLEAN :
       WorkerFetchUpdate(w, resp, dbOk)
  \/ \E w \in DOMAIN worker : WorkerLoop(w)

SpecManager == InitManager /\ [][NextManager]_vars

\* ------------------------------------------------------------------- claims
Pending(n) == HasRow(orders, n) /\ orders[n].status \in {OrderNew, OrderProcessing}
Terminal(n) == HasRow(orders, n) /\ orders[n].status \in {OrderProcessed, OrderInvalid}

RECURSIVE SumOver(_, _)
SumOver(f, S) ==
  IF S = {} THEN 0
  ELSE LET x == CHOOSE y \in S : TRUE IN f[x] + SumOver(f, S \ {x})

AccrualOf(row) == IF row.accrual.valid THEN row.accrual.val ELSE 0
OrdersOf(u) == {n \in AllNums : orders[n].user_id = u}

\* The sum of the accruals of the PROCESSED orders of user u, each once.
ProcessedAccruals(u) ==
  SumOver([n \in AllNums |-> AccrualOf(orders[n])],
          {n \in OrdersOf(u) : orders[n].status = OrderProcessed})

\* The sum of the withdrawal rows of user u.
SumWithdrawals(u) ==
  SumOver([i \in DOMAIN withdrawals |-> withdrawals[i].sum],
          {i \in DOMAIN withdrawals : withdrawals[i].user_id = u})

\* C1: a second UpdateOrder for the same order with the same PROCESSED
\* decision and accrual a > 0 leaves the balance of every user unchanged.
UpdateOrderIdempotent ==
  [][\A w \in Workers :
       (/\ worker[w].pc = "fetch"
        /\ worker'[w].pc = "dequeue"
        /\ worker'[w].err = "nil"
        /\ orders[worker[w].order].status = OrderProcessed
        /\ AccrualOf(orders[worker[w].order]) > 0
        /\ orders'[worker[w].order] = orders[worker[w].order])
       => users' = users]_vars

\* C2: in every reachable state the current balance of each user is the sum
\* of the accruals of the user's PROCESSED orders, each counted once, minus
\* the sum of the user's withdrawals.
BalanceIsLedger ==
  \A u \in Users : users[u].current_balance = ProcessedAccruals(u) - SumWithdrawals(u)

\* C3: concurrent withdrawals of one user are serialized (at most one of
\* them is past the sufficiency check and before its commit), and no
\* current balance is ever negative.
WithdrawSerialized ==
  /\ \A u \in Users : users[u].current_balance >= 0
  /\ \A r1, r2 \in Withdrawers :
       (/\ r1 # r2
        /\ withdrawer[r1].pc = "locked"
        /\ withdrawer[r2].pc = "locked")
       => withdrawer[r1].userID # withdrawer[r2].userID

\* Two withdrawals of one user passed the pre-check against a balance that
\* covers only one of them; one holds the row, the other waits for it.
WithdrawRace ==
  \E r1, r2 \in Withdrawers :
    /\ r1 # r2
    /\ withdrawer[r1].userID = withdrawer[r2].userID
    /\ withdrawer[r1].pc = "locked"
    /\ withdrawer[r2].pc = "blocked"
    /\ withdrawer[r1].sum + withdrawer[r2].sum > users[withdrawer[r1].userID].current_balance

\* C4: a withdrawal refused for a balance smaller than the sum ends with
\* the typed outcome StatusConflict, also when the shortfall is found only
\* inside the store transaction.
InsufficientIsTyped ==
  \A r \in Withdrawers :
    (withdrawer[r].pc = "done" /\ withdrawer[r].err = "insufficient funds")
      => withdrawer[r].status = StatusConflict

\* An EnqueueOrder caller holds mu and waits to send on the full channel.
SenderBlocked ==
  /\ mu # MuFree
  /\ ~ChanHasRoom
  /\ \/ sweep.pc = "send"
     \/ \E h \in DOMAIN handler : handler[h].pc = "send"

\* C5: the queue manager never deadlocks: no state is reachable in which an
\* EnqueueOrder caller is blocked sending on the full job channel while
\* every worker is blocked in DequeueOrder.
NoQueueDeadlock ==
  ~(SenderBlocked /\ \A w \in Workers : worker[w].pc = "dequeue")

\* C6: for every order number at most one worker is executing FetchAccrual
\* for it at any time.
OneFetchPerOrder ==
  \A w1, w2 \in Workers :
    (w1 # w2 /\ worker[w1].pc = "fetch" /\ worker[w2].pc = "fetch")
      => worker[w1].order # worker[w2].order

\* Every worker is fetching while the sweep is about to enqueue a number
\* that one of them holds.
FetchWhileReEnqueued ==
  /\ \A w \in Workers : worker[w].pc = "fetch"
  /\ sweep.pc = "loop"
  /\ \E w \in Workers : worker[w].order \in sweep.pending

\* C7: every order stored with a non-terminal status (NEW or PROCESSING)
\* eventually reaches a terminal status (PROCESSED or INVALID).
PendingReachesTerminal ==
  \A n \in QueueNums : Pending(n) ~> Terminal(n)

\* C8: an order left in PROCESSING by a crash, with the in-flight set rebuilt
\* empty, is enqueued by the sweep, eventually fetched by a worker, and the
\* decision of the accrual service is stored.
ProcessingIsRefetched ==
  \A n \in QueueNums :
    (HasRow(orders, n) /\ orders[n].status = OrderProcessing /\ queue = {})
      ~> (\E w \in Workers : worker[w].pc = "dequeue" /\ worker[w].order = n
                              /\ worker[w].err = "nil")

\* C9: when FetchAccrual ends on a 204 answer the order is stored INVALID.
NotRegisteredMarksInvalid ==
  \A w \in Workers :
    (worker[w].pc = "dequeue" /\ worker[w].err = "order not registered")
      => orders[worker[w].order].status = OrderInvalid

\* C10: a user whose only order was submitted once, stored NEW and then
\* decided PROCESSED with accrual a, and who has withdrawn nothing, has the
\* current balance a.
RoundTripCredit ==
  \A u \in Users : \A n \in ValidNums :
    (/\ OrdersOf(u) = {n}
     /\ orders[n].status = OrderProcessed
     /\ users[u].withdrawn = 0)
    => users[u].current_balance = AccrualOf(orders[n])

\* C11: once the stored status of an order is PROCESSED or INVALID, no step
\* changes its status or its accrual.
TerminalIsFinal ==
  [][\A n \in AllNums :
       Terminal(n) => /\ orders'[n].status = orders[n].status
                      /\ orders'[n].accrual = orders[n].accrual]_vars

\* C12: the owner of an order is the user whose SaveOrder inserted the row,
\* and the owner of an existing row never changes, also when two users
\* submit the same new number concurrently.
OwnerIsFirstWriter ==
  [][\A n \in AllNums :
       /\ HasRow(orders, n) => orders'[n].user_id = orders[n].user_id
       /\ (~HasRow(orders, n) /\ HasRow(orders', n))
            => \E h \in DOMAIN handler :
                 /\ handler[h].pc = "save"
                 /\ handler'[h].pc = "enqueue"
                 /\ handler[h].orderNum = n
                 /\ handler[h].userID = orders'[n].user_id]_vars

\* The SaveOrder of a second user has run on a number that the first user
\* had inserted meanwhile.
SecondWriterSaved ==
  \E h \in DOMAIN handler :
    /\ handler[h].pc = "enqueue"
    /\ handler[h].status = StatusOK
    /\ HasRow(orders, handler[h].orderNum)
    /\ orders[handler[h].orderNum].user_id # handler[h].userID

\* The step with which request h enters, for user u and number n.
Enters(h) == handler[h].pc = "idle" /\ handler'[h].pc # "idle"

\* C13: a submission of a Luhn-valid number by the user who already owns the
\* stored order is answered StatusAlreadyExist (unless the lookup fails) and
\* leaves the orders table, with its single row for the number, unchanged.
ResubmitIsAlreadyExist ==
  [][\A h \in DOMAIN handler :
       (/\ Enters(h)
        /\ HasRow(orders, handler'[h].orderNum)
        /\ orders[handler'[h].orderNum].user_id = handler'[h].userID)
       => /\ handler'[h].status \in {StatusAlreadyExist, StatusError}
          /\ handler'[h].status = StatusAlreadyExist => handler'[h].pc = "enqueue"
          /\ handler'[h].status = StatusError => handler'[h].pc = "done"
          /\ orders' = orders]_vars

\* A second submission by the owner was answered StatusAlreadyExist.
OwnerResubmitted ==
  \E h \in DOMAIN handler :
    /\ handler[h].pc = "done"
    /\ handler[h].status = StatusAlreadyExist
    /\ orders[handler[h].orderNum].user_id = handler[h].userID

\* C14: a submission of a number stored under a different user is answered
\* StatusConflict (unless the lookup fails), ends without enqueueing, and
\* leaves the stored orders, the balances and the queue unchanged.
ForeignOrderIsConflict ==
  [][\A h \in DOMAIN handler :
       /\ (/\ Enters(h)
           /\ HasRow(orders, handler'[h].orderNum)
           /\ orders[handler'[h].orderNum].user_id # handler'[h].userID)
          => /\ handler'[h].status \in {StatusConflict, StatusError}
             /\ handler'[h].pc = "done"
             /\ UNCHANGED <<orders, users, queue, jobChan>>
       /\ (handler[h].pc = "done" /\ handler'[h] # handler[h])
          => /\ handler'[h].pc = "idle"
             /\ UNCHANGED <<orders, users, queue, jobChan>>]_vars

\* A submission of another user's order was answered StatusConflict.
ForeignSubmitted ==
  \E h \in DOMAIN handler :
    /\ handler[h].pc = "done"
    /\ handler[h].status = StatusConflict
    /\ orders[handler[h].orderNum].user_id \notin {0, handler[h].userID}

\* C15: a submission whose number is not Luhn-valid is rejected as Invalid
\* whatever the state of the store, since no store operation is part of it.
InvalidNumberRejected ==
  \A h \in DOMAIN handler :
    (handler[h].pc = "done" /\ ~IsValidLuhn(handler[h].orderNum))
      => handler[h].status = StatusInvalid

\* C16: a withdrawal request with a number that is not Luhn-valid or with a
\* sum that is zero or negative is refused at once, whatever the state of
\* the store, and the tables are left unchanged.
BadWithdrawalRefused ==
  [][\A r \in Withdrawers :
       /\ (/\ withdrawer[r].pc = "idle"
           /\ withdrawer'[r].pc # "idle"
           /\ ~IsValidLuhn(withdrawer'[r].order) \/ withdrawer'[r].sum <= 0)
          => /\ withdrawer'[r].pc = "done"
             /\ withdrawer'[r].status = StatusInvalid
             /\ UNCHANGED dbVars
       /\ (withdrawer[r].pc = "done" /\ withdrawer'[r] # withdrawer[r])
          => /\ withdrawer'[r].pc = "idle"
             /\ UNCHANGED dbVars]_vars

\* One request was refused for its sum and another for its number while
\* the user had a balance to withdraw from.
BadWithdrawalsSeen ==
  \E r1, r2 \in Withdrawers :
    /\ withdrawer[r1].pc = "done" /\ withdrawer[r2].pc = "done"
    /\ withdrawer[r1].userID = withdrawer[r2].userID
    /\ users[withdrawer[r1].userID].current_balance > 0
    /\ withdrawer[r1].sum <= 0 /\ IsValidLuhn(withdrawer[r1].order)
    /\ withdrawer[r2].sum > 0 /\ ~IsValidLuhn(withdrawer[r2].order)

\* C17: the withdrawn total of every user is non-negative and never
\* decreases, whatever sums are requested and whatever accruals arrive.
WithdrawnMonotone ==
  [][\A u \in Users : /\ users[u].withdrawn >= 0
                      /\ users'[u].withdrawn >= users[u].withdrawn]_vars

\* A withdrawal was committed and a request for a negative sum was made.
WithdrawnAndNegativeAsked ==
  \E r \in Withdrawers :
    /\ withdrawer[r].pc = "done"
    /\ withdrawer[r].sum < 0
    /\ users[withdrawer[r].userID].withdrawn > 0

\* C18: UpdateOrder changes a balance if and only if the decision it stores
\* has status PROCESSED and an accrual greater than 0.
CreditIffProcessed ==
  [][\A w \in Workers :
       (/\ worker[w].pc = "fetch"
        /\ worker'[w].pc = "dequeue"
        /\ worker'[w].err = "nil")
       => (users' # users
             <=> /\ orders'[worker[w].order].status = OrderProcessed
                 /\ AccrualOf(orders'[worker[w].order]) > 0)]_vars

\* C19: SaveOrder for a number that already has a row leaves the owner, the
\* status and the accrual of that row unchanged.
SaveOrderKeepsRow ==
  [][\A h \in DOMAIN handler :
       (/\ handler[h].pc = "save"
        /\ handler'[h].pc = "enqueue"
        /\ HasRow(orders, handler[h].orderNum))
       => orders'[handler[h].orderNum] = orders[handler[h].orderNum]]_vars

\* C20: while every request of a FetchAccrual has failed at transport level,
\* the sleeps so far are 1, 2, 4, 8, 16 seconds in this order; the call ends
\* only after 5 requests, with the error "max retries reached" (so without
\* UpdateOrder).
BackoffSchedule ==
  \A w \in Workers :
    worker[w].requests = worker[w].attempts
      => /\ worker[w].attempts <= maxAttempts
         /\ worker[w].slept = SubSeq(<<1, 2, 4, 8, 16>>, 1, worker[w].attempts)
         /\ worker[w].pc = "dequeue"
              => /\ worker[w].requests = maxAttempts
                 /\ worker[w].err = "max retries reached"

\* A FetchAccrual ended after five transport failures.
RetriesExhausted ==
  \E w \in Workers :
    /\ worker[w].pc = "dequeue"
    /\ worker[w].err = "max retries reached"
    /\ worker[w].requests = 5
    /\ worker[w].slept = <<1, 2, 4, 8, 16>>

\* C21: a 429 that makes FetchAccrual sleep is one with a Retry-After of d
\* seconds (d = 3 here): the call sleeps exactly d, the 429 costs one request
\* but no failure attempt, the backoff is back at 1 second and the call goes
\* on with another request; when that 429 was the first answer and the
\* second is a decoded 200, the call ends after exactly 2 requests with the
\* decision applied by UpdateOrder.
RetryAfterHonoured ==
  [][\A w \in Workers :
       /\ (/\ worker[w].pc = "fetch"
           /\ worker'[w].requests = worker[w].requests + 1
           /\ worker'[w].code = "429"
           /\ worker'[w].slept # worker[w].slept)
          => /\ worker'[w].slept = Append(worker[w].slept, 3)
             /\ worker'[w].attempts = worker[w].attempts
             /\ worker'[w].backoff = 1
             /\ worker'[w].pc = "fetch"
             /\ orders' = orders
       /\ (/\ worker[w].pc = "fetch"
           /\ worker[w].requests = 1
           /\ worker[w].code = "429"
           /\ worker[w].slept = <<3>>
           /\ worker'[w].code = "200"
           /\ worker'[w].err = "nil")
          => /\ worker'[w].pc = "dequeue"
             /\ worker'[w].requests = 2
             /\ \E resp \in StableDecisions(orders, worker[w].order) :
                  orders' = UpdateOrderRows(orders, resp)]_vars

\* A FetchAccrual that was told to retry after 3 seconds, asked again and
\* stored PROCESSED.
RetryAfterThenDecision ==
  \E w \in Workers :
    /\ worker[w].pc = "dequeue"
    /\ worker[w].err = "nil"
    /\ worker[w].code = "200"
    /\ worker[w].requests = 2
    /\ worker[w].slept = <<3>>
    /\ orders[worker[w].order].status = OrderProcessed

\* C22: every pass of FetchAccrual that receives a 429 either honours a
\* Retry-After of 3 seconds without counting an attempt, or (no header, or a
\* header that is not an integer) sleeps the current backoff, doubles it and
\* counts one of the 5 attempts.
RateLimitBacksOff ==
  [][\A w \in Workers :
       (/\ worker[w].pc = "fetch"
        /\ worker'[w].requests = worker[w].requests + 1
        /\ worker'[w].code = "429")
       => \/ /\ worker'[w].slept = Append(worker[w].slept, 3)
             /\ worker'[w].attempts = worker[w].attempts
          \/ /\ worker'[w].slept = Append(worker[w].slept, worker[w].backoff)
             /\ worker'[w].backoff = 2 * worker[w].backoff
             /\ worker'[w].attempts = worker[w].attempts + 1
             /\ worker'[w].attempts <= maxAttempts]_vars

\* C23: a FetchAccrual whose last response had a 5xx status (500 or 503
\* here) has returned an error without calling UpdateOrder: its result is
\* neither nil nor the error of UpdateOrder.
ServerFaultIsTerminal ==
  \A w \in Workers :
    (worker[w].pc = "dequeue" /\ worker[w].code \in {"500", "503"})
      => worker[w].err \notin {"nil", "db error"}

\* C24: a FetchAccrual whose context was cancelled while the call was in the
\* HTTP request or in a sleep has returned the error of the context.
CancelAborts ==
  \A w \in Workers :
    (worker[w].pc = "dequeue" /\ worker[w].ctxDone) => worker[w].err = "context canceled"

\* C25: every number occurs at most once among the contents of jobChan and
\* the jobs held by workers (received and not yet dequeued); an EnqueueOrder
\* for a number of the in-flight set adds nothing.
InFlightOnce ==
  /\ \A i, j \in 1..Len(jobChan) : i # j => jobChan[i] # jobChan[j]
  /\ \A w \in Workers :
       worker[w].pc \in {"fetch", "dequeue"}
         => \A i \in 1..Len(jobChan) : jobChan[i] # worker[w].order
  /\ \A w1, w2 \in Workers :
       (w1 # w2 /\ worker[w1].pc \in {"fetch", "dequeue"}
                /\ worker[w2].pc \in {"fetch", "dequeue"})
         => worker[w1].order # worker[w2].order

\* A resubmission came back from EnqueueOrder while a worker still holds
\* its number and another number waits in the channel.
ResubmittedWhileHeld ==
  \E h \in Handlers, w \in Workers :
    /\ handler[h].pc = "done"
    /\ handler[h].status = StatusAlreadyExist
    /\ worker[w].pc = "dequeue"
    /\ worker[w].order = handler[h].orderNum
    /\ handler[h].orderNum \in queue
    /\ jobChan # <<>>

\* C26: a worker whose FetchAccrual has returned, with or without an error,
\* eventually has removed the number from the in-flight set and is back at
\* the channel for the next job.
WorkerFinishesJob ==
  \A w \in Workers : (worker[w].pc = "dequeue") ~> (worker[w].pc = "idle")

\* C27: a submission that ends with StatusOK (202) or StatusAlreadyExist
\* (200) ends coming out of EnqueueOrder with its number in the in-flight
\* set; one that ends with StatusInvalid, StatusConflict or StatusError ends
\* without having reached EnqueueOrder, the queue untouched.
EnqueueIffAccepted ==
  [][\A h \in Handlers :
       (handler[h].pc # "done" /\ handler'[h].pc = "done")
       => \/ /\ handler'[h].status \in {StatusOK, StatusAlreadyExist}
             /\ handler[h].pc \in {"enqueue", "send"}
             /\ handler'[h].orderNum \in queue'
          \/ /\ handler'[h].status \in {StatusInvalid, StatusConflict, StatusError}
             /\ handler[h].pc \in {"idle", "save"}
             /\ UNCHANGED queueVars]_vars

\* A new order was accepted and its number waits in the channel.
AcceptedAndQueued ==
  \E h \in Handlers :
    /\ handler[h].pc = "done"
    /\ handler[h].status = StatusOK
    /\ handler[h].orderNum \in queue
    /\ \E i \in 1..Len(jobChan) : jobChan[i] = handler[h].orderNum

\* C28: when the process has ended, the jobs that were in the channel have
\* been processed: the channel is empty, no worker is left inside a job and
\* no sweep is left inside an EnqueueOrder.
ShutdownDrains ==
  ~ProcessAlive
    => /\ jobChan = <<>>
       /\ \A w \in Workers : worker[w].pc = "idle"
       /\ mu = MuFree

\* C29: in every state the withdrawn total of every user is the sum of the
\* user's withdrawal records, and the step in which a Withdraw succeeds does
\* three things at once: it appends one record with the user, the order
\* number and the sum, lowers the current balance by the sum and raises the
\* withdrawn total by the sum.
WithdrawIsAtomic ==
  /\ [](\A u \in Users : users[u].withdrawn = SumWithdrawals(u))
  /\ [][\A r \in Withdrawers :
          (/\ withdrawer[r].pc # "done"
           /\ withdrawer'[r].pc = "done"
           /\ withdrawer'[r].status = StatusOK)
          => LET u == withdrawer[r].userID
                 sum == withdrawer[r].sum
             IN /\ withdrawals' = Append(withdrawals,
                     [user_id |-> u, order_number |-> withdrawer[r].order, sum |-> sum])
                /\ users' = [users EXCEPT ![u].current_balance = @ - sum,
                                          ![u].withdrawn = @ + sum]]_vars

\* A user has withdrawn twice.
WithdrawnTwice ==
  \E u \in Users :
    /\ Cardinality({i \in DOMAIN withdrawals : withdrawals[i].user_id = u}) = 2
    /\ users[u].withdrawn = 2

\* C30: the step in which a Withdraw fails inside the store (the
\* transaction cannot begin, the SELECT fails, the balance read under the
\* lock is too small, the INSERT, the UPDATE or the Commit fails) leaves the
\* balances, the withdrawn totals and the withdrawal records as they were
\* and releases the row.
FailedWithdrawRolledBack ==
  [][\A r \in Withdrawers :
       (/\ withdrawer[r].pc \in {"tx", "blocked", "stale", "locked"}
        /\ withdrawer'[r].pc = "done"
        /\ withdrawer'[r].status # StatusOK)
       => /\ users' = users
          /\ withdrawals' = withdrawals
          /\ orders' = orders
          /\ rowLock'[withdrawer[r].userID] # r]_vars

\* A Withdraw for a sum the balance covers failed in the store, and one
\* failed for a balance that had become too small.
WithdrawFailedInStore ==
  /\ \E r \in Withdrawers :
       /\ withdrawer[r].pc = "done"
       /\ withdrawer[r].err = "db error"
       /\ withdrawer[r].sum > 0
       /\ users[withdrawer[r].userID].current_balance >= withdrawer[r].sum
  /\ \E r \in Withdrawers :
       /\ withdrawer[r].pc = "done"
       /\ withdrawer[r].err = "insufficient funds"

\* C31: the pass that ends a FetchAccrual on a 204, a 500, a 200 whose body
\* does not decode or a context found done at the loop top has not called
\* UpdateOrder (its result is the error of that outcome) and leaves every
\* stored order and every balance as it was; the pass that ends it with success on a 200
\* has applied one decision for its order, once: the row is rewritten with
\* it and the balances change by its credit.
UpdateOrderOnlyOnDecision ==
  [][\A w \in Workers :
       (worker[w].pc = "fetch" /\ worker'[w].pc = "dequeue")
       => /\ worker'[w].requests > worker[w].requests
             => /\ worker'[w].code = "204" => worker'[w].err = "order not registered"
                /\ worker'[w].code = "500" => worker'[w].err = "internal server error"
          /\ worker'[w].err \in {"order not registered", "internal server error",
                                 "decode error", "context canceled", "max retries reached"}
             => orders' = orders /\ users' = users
          /\ (worker'[w].code = "200" /\ worker'[w].err = "nil")
             => \E resp \in StableDecisions(orders, worker[w].order) :
                  /\ orders' = UpdateOrderRows(orders, resp)
                  /\ \A u \in Users :
                       users'[u].current_balance = users[u].current_balance
                         + (IF u = orders[resp.order].user_id
                            THEN UpdateOrderCredit(orders, resp) ELSE 0)]_vars

\* A FetchAccrual found its context done at the loop top after a request
\* that had to be retried, its order still NEW and nothing credited.
EndedWithoutUpdate ==
  \E w \in Workers :
    /\ worker[w].pc = "dequeue"
    /\ worker[w].err = "context canceled"
    /\ worker[w].requests >= 1
    /\ worker[w].code \in {"error", "429"}
    /\ orders[worker[w].order].status = OrderNew
    /\ \A u \in Users : users[u].current_balance = 0

\* C32: a submission whose SaveOrder fails ends with StatusError; a
\* submission that ends with StatusError (IsOrderExists, SaveOrder or the
\* UpdateOrder of the Luhn branch failed) ends before EnqueueOrder, with the
\* queue untouched, and has written no order row: neither in its last step
\* nor in the step that took it to SaveOrder.
StoreFailureIsError ==
  [][\A h \in DOMAIN handler :
       /\ (handler[h].pc = "save" /\ handler'[h].pc = "done")
          => handler'[h].status = StatusError
       /\ (handler[h].pc # "done" /\ handler'[h].pc = "done"
             /\ handler'[h].status = StatusError)
          => /\ handler[h].pc \in {"idle", "save"}
             /\ orders' = orders
             /\ UNCHANGED queueVars
       /\ (handler[h].pc = "idle" /\ handler'[h].pc = "save")
          => orders' = orders /\ UNCHANGED queueVars]_vars

\* A submission of a new number ended with StatusError: the number has no
\* row and is not in flight.
FailedSubmissionLeftNothing ==
  \E h \in DOMAIN handler :
    /\ handler[h].pc = "done"
    /\ handler[h].status = StatusError
    /\ IsValidLuhn(handler[h].orderNum)
    /\ ~HasRow(orders, handler[h].orderNum)
    /\ handler[h].orderNum \notin queue

StatusInDomain ==
  \A n \in AllNums :
    HasRow(orders, n)
      => orders[n].status \in {OrderNew, OrderProcessing, OrderInvalid, OrderProcessed}

\* C35: every FetchAccrual call that has begun returns.
FetchAccrualTerminates ==
  \A w \in Workers : (worker[w].pc = "fetch") ~> (worker[w].pc = "dequeue")

\* C36: no two requests of different users hold the outcome StatusOK for
\* the same order number.
OneUserAccepted ==
  \A h1, h2 \in DOMAIN handler :
    (/\ handler[h1].pc \in {"enqueue", "send", "done"}
     /\ handler[h2].pc \in {"enqueue", "send", "done"}
     /\ handler[h1].status = StatusOK
     /\ handler[h2].status = StatusOK
     /\ handler[h1].orderNum = handler[h2].orderNum)
    => handler[h1].userID = handler[h2].userID

\* C37: the pass that ends a FetchAccrual for number n leaves the row of
\* every other number as it was and credits nothing unless the row of n
\* has become PROCESSED with an accrual.
FetchTouchesOnlyItsOrder ==
  [][\A w \in Workers :
       (worker[w].pc = "fetch" /\ worker'[w].pc = "dequeue")
       => /\ \A m \in AllNums \ {worker[w].order} : orders'[m] = orders[m]
          /\ users' # users
             => /\ orders'[worker[w].order].status = OrderProcessed
                /\ orders'[worker[w].order] # orders[worker[w].order]]_vars

\* C38: the in-flight set is exactly the set of the numbers that are in
\* jobChan, in the send of an EnqueueOrder that holds mu, or in the hands of
\* a worker that has received them and not yet run DequeueOrder.
InFlightIsAccounted ==
  queue = {jobChan[i] : i \in 1..Len(jobChan)}
          \cup (IF sweep.pc = "send" THEN {sweep.order} ELSE {})
          \cup {handler[h].orderNum : h \in {g \in DOMAIN handler : handler[g].pc = "send"}}
          \cup {worker[w].order : w \in {v \in Workers : worker[v].pc \in {"fetch", "dequeue"}}}

\* One number is in the hands of a worker whose FetchAccrual has returned
\* while the sweep, holding mu, is sending another.
InFlightInTwoPlaces ==
  /\ sweep.pc = "send"
  /\ \E w \in Workers : worker[w].pc = "dequeue" /\ worker[w].order # sweep.order
  /\ Cardinality(queue) = 2

\* C39: whatever number of GetQueueManager calls has been made, the worker
\* loops ever started are those of one manager: at most workerPool.
OneWorkerPool ==
  Len(worker) <= WorkerPool

====
